---------------------------- MODULE Spec2Model ----------------------------
(***************************************************************************)
(* Snowflake growth on a hexagonal lattice (src/main.js): the per-cell     *)
(* update rule of SnowflakeCell, the three passes of CrystalLattice.step,  *)
(* and the controls that construct and advance the lattice.                *)
(*                                                                         *)
(* Numbers.  The masses and the parameters are IEEE doubles in the source. *)
(* Here they are fixed-point numbers: the integer n stands for n / Unit.   *)
(* A product or a quotient is rounded down to a whole number of quanta, so *)
(* like the source's arithmetic the model's is inexact; statements about   *)
(* equal masses are made up to that rounding where rounding can enter.     *)
(***************************************************************************)
EXTENDS Integers, Sequences, FiniteSets

(* Quanta per 1.0 of mass. *)
Unit == 1000

(* Largest lattice radius constructed, and the cap on currentStep. *)
MaxSize == 4
MaxSteps == 7

(* a * b of two fixed-point numbers, rounded down. *)
Mul(a, b) == (a * b) \div Unit

Max(a, b) == IF a >= b THEN a ELSE b

Abs(a) == IF a >= 0 THEN a ELSE 0 - a

\* ====== HEXAGONAL GRID HELPERS ======
HEX_DX == <<1, 0, -1, -1, 0, 1>>
HEX_DY == <<0, 1, 1, 0, -1, -1>>

(* A faulty variant: the loop's test without Math.abs. *)
Coords_NoAbs(size) ==
    {c \in (0 - size .. size) \X (0 - size .. size) : c[1] + c[2] <= size}

(* The keys of CrystalLattice.cells for a radius: the constructor's loops. *)
Coords(size) ==
    {c \in (0 - size .. size) \X (0 - size .. size) : Abs(c[1] + c[2]) <= size}

(* Position of a coordinate in the constructor's insertion order: q rising, *)
(* and r rising within a q.  Map.values() iterates in insertion order.      *)
Rank(size, c) == (c[1] + size) * (2 * size + 1) + (c[2] + size)

RECURSIVE SortedSeq(_, _)
SortedSeq(size, S) ==
    IF S = {} THEN <<>>
    ELSE LET m == CHOOSE x \in S : \A y \in S : Rank(size, x) <= Rank(size, y)
         IN  <<m>> \o SortedSeq(size, S \ {m})

CellOrder(size) == SortedSeq(size, Coords(size))

Reverse(s) == [k \in 1 .. Len(s) |-> s[Len(s) + 1 - k]]

\* ====== SNOWFLAKE CELL CLASS ======
(* new SnowflakeCell(q, r, lattice): the fields the constructor sets.  The  *)
(* scratch fields attachedNeighbors and _next_dm do not exist yet in the    *)
(* source; they are written by stepOne before anything reads them, and are  *)
(* <<>> and 0 here until then.                                              *)
SnowflakeCell(P) ==
    [diffusiveMass |-> P.gamma, boundaryMass |-> 0, crystalMass |-> 0,
     attached |-> FALSE, boundary |-> FALSE, age |-> 0,
     attachmentFlag |-> FALSE, attachedNeighbors |-> <<>>, next_dm |-> 0]

(* get neighbors(): the cells lattice.get finds at the six offsets, in the *)
(* order of the offsets.  C is the lattice's cells map.                     *)
neighbors(C, c) ==
    SelectSeq([d \in 1 .. 6 |-> <<c[1] + HEX_DX[d], c[2] + HEX_DY[d]>>],
              LAMBDA n : n \in DOMAIN C)

(* Sum of f over the elements of the sequence s. *)
RECURSIVE SumSeq(_, _)
SumSeq(f, s) == IF s = <<>> THEN 0 ELSE f[Head(s)] + SumSeq(f, Tail(s))

(* A faulty variant: every unattached cell counts as a boundary cell. *)
updateBoundary_IgnoresNeighbors(C, c) ==
    [C EXCEPT ![c].boundary = ~C[c].attached]

updateBoundary(C, c) ==
    [C EXCEPT ![c].boundary =
        ~C[c].attached /\ \E k \in 1 .. Len(neighbors(C, c)) : C[neighbors(C, c)[k]].attached]

(* A faulty variant: an attached neighbor contributes its own diffusive mass. *)
diffusionCalc_AttachedContributes(C, c) ==
    IF C[c].attached THEN C[c].diffusiveMass
    ELSE LET contribution == [n \in DOMAIN C |-> C[n].diffusiveMass]
         IN  (C[c].diffusiveMass + SumSeq(contribution, neighbors(C, c)))
                 \div (Len(neighbors(C, c)) + 1)

(* A faulty variant: the sum is divided by seven, whatever the number of *)
(* neighbors the cell has.                                               *)
diffusionCalc_DividesBySeven(C, c) ==
    IF C[c].attached THEN C[c].diffusiveMass
    ELSE LET own == C[c].diffusiveMass
             contribution == [n \in DOMAIN C |->
                                IF C[n].attached THEN own ELSE C[n].diffusiveMass]
         IN  (own + SumSeq(contribution, neighbors(C, c))) \div 7

(* The value diffusionCalc returns. *)
diffusionCalc(C, c) ==
    IF C[c].attached THEN C[c].diffusiveMass
    ELSE LET own == C[c].diffusiveMass
             contribution == [n \in DOMAIN C |->
                                IF C[n].attached THEN own ELSE C[n].diffusiveMass]
         IN  (own + SumSeq(contribution, neighbors(C, c)))
                 \div (Len(neighbors(C, c)) + 1)

(* What diffusionCalc changes: the age of a cell that is not attached. *)
diffusionAge(C, c) ==
    IF C[c].attached THEN C ELSE [C EXCEPT ![c].age = @ + 1]

stepOne(C, c) ==
    LET C1 == updateBoundary(C, c)
        C2 == IF C1[c].boundary
              THEN [C1 EXCEPT ![c].attachedNeighbors =
                        SelectSeq(neighbors(C1, c), LAMBDA n : C1[n].attached)]
              ELSE C1
    IN  [diffusionAge(C2, c) EXCEPT ![c].next_dm = diffusionCalc(C2, c)]

freezingStep(C, c, P) ==
    IF ~C[c].boundary THEN C
    ELSE [C EXCEPT ![c].boundaryMass = @ + Mul(Unit - P.kappa, C[c].diffusiveMass),
                   ![c].crystalMass = @ + Mul(P.kappa, C[c].diffusiveMass),
                   ![c].diffusiveMass = 0]

(* A faulty variant: the melted share is not taken off the boundary mass. *)
meltingStep_KeepsBoundaryMass(C, c, P) ==
    IF ~C[c].boundary THEN C
    ELSE [C EXCEPT ![c].diffusiveMass =
                        @ + Mul(P.mu, C[c].boundaryMass) + Mul(P.upsilon, C[c].crystalMass),
                   ![c].crystalMass = Mul(@, Unit - P.upsilon)]

meltingStep(C, c, P) ==
    IF ~C[c].boundary THEN C
    ELSE [C EXCEPT ![c].diffusiveMass =
                        @ + Mul(P.mu, C[c].boundaryMass) + Mul(P.upsilon, C[c].crystalMass),
                   ![c].boundaryMass = Mul(@, Unit - P.mu),
                   ![c].crystalMass = Mul(@, Unit - P.upsilon)]

(* A faulty variant: the noise is not clamped at 0. *)
noiseStep_NoClamp(C, c, P, r) ==
    IF C[c].attached THEN C
    ELSE [C EXCEPT ![c].diffusiveMass = @ + Mul(r - Unit \div 2, P.sigma) * 2]

(* A faulty variant: the noise has a fixed amplitude of 0.01 instead of sigma. *)
noiseStep_FixedAmplitude(C, c, P, r) ==
    IF C[c].attached THEN C
    ELSE [C EXCEPT ![c].diffusiveMass =
                        Max(0, @ + Mul(r - Unit \div 2, Unit \div 100) * 2)]

(* A faulty variant: the noise is applied to attached cells too. *)
noiseStep_OnAttached(C, c, P, r) ==
    [C EXCEPT ![c].diffusiveMass =
                Max(0, @ + Mul(r - Unit \div 2, P.sigma) * 2)]

(* r is the value Math.random() returns. *)
noiseStep(C, c, P, r) ==
    IF C[c].attached THEN C
    ELSE [C EXCEPT ![c].diffusiveMass =
                        Max(0, @ + Mul(r - Unit \div 2, P.sigma) * 2)]

(* A faulty variant: with one or two attached neighbors, boundaryMass is *)
(* compared with theta instead of beta.                                  *)
attachmentStep_ThetaForBeta(C, c, P) ==
    IF ~C[c].boundary THEN FALSE
    ELSE LET attachedCount == Len(C[c].attachedNeighbors)
             dm == [n \in DOMAIN C |-> C[n].diffusiveMass]
             summedDiff == C[c].diffusiveMass + SumSeq(dm, neighbors(C, c))
         IN  IF attachedCount <= 2 THEN C[c].boundaryMass > P.theta
             ELSE IF attachedCount = 3
                  THEN \/ C[c].boundaryMass >= Unit
                       \/ summedDiff < P.theta /\ C[c].boundaryMass >= P.alpha
                  ELSE FALSE

(* A faulty variant: four or more attached neighbors are treated like three. *)
attachmentStep_ThreeOrMore(C, c, P) ==
    IF ~C[c].boundary THEN FALSE
    ELSE LET attachedCount == Len(C[c].attachedNeighbors)
             dm == [n \in DOMAIN C |-> C[n].diffusiveMass]
             summedDiff == C[c].diffusiveMass + SumSeq(dm, neighbors(C, c))
         IN  IF attachedCount <= 2 THEN C[c].boundaryMass > P.beta
             ELSE \/ C[c].boundaryMass >= Unit
                  \/ summedDiff < P.theta /\ C[c].boundaryMass >= P.alpha

(* A faulty variant: with one or two attached neighbors, boundaryMass >= beta attaches. *)
attachmentStep_AtLeastBeta(C, c, P) ==
    IF ~C[c].boundary THEN FALSE
    ELSE LET attachedCount == Len(C[c].attachedNeighbors)
             dm == [n \in DOMAIN C |-> C[n].diffusiveMass]
             summedDiff == C[c].diffusiveMass + SumSeq(dm, neighbors(C, c))
         IN  IF attachedCount <= 2 THEN C[c].boundaryMass >= P.beta
             ELSE IF attachedCount = 3
                  THEN \/ C[c].boundaryMass >= Unit
                       \/ summedDiff < P.theta /\ C[c].boundaryMass >= P.alpha
                  ELSE FALSE

attachmentStep(C, c, P) ==
    IF ~C[c].boundary THEN FALSE
    ELSE LET attachedCount == Len(C[c].attachedNeighbors)
             dm == [n \in DOMAIN C |-> C[n].diffusiveMass]
             summedDiff == C[c].diffusiveMass + SumSeq(dm, neighbors(C, c))
         IN  IF attachedCount <= 2 THEN C[c].boundaryMass > P.beta
             ELSE IF attachedCount = 3
                  THEN \/ C[c].boundaryMass >= Unit
                       \/ summedDiff < P.theta /\ C[c].boundaryMass >= P.alpha
                  ELSE FALSE

(* A faulty variant: attaching also clears the boundary flag. *)
attach_ClearsBoundary(C, c) ==
    [C EXCEPT ![c].crystalMass = @ + C[c].boundaryMass,
              ![c].boundaryMass = 0,
              ![c].attached = TRUE,
              ![c].boundary = FALSE]

attach(C, c) ==
    [C EXCEPT ![c].crystalMass = @ + C[c].boundaryMass,
              ![c].boundaryMass = 0,
              ![c].attached = TRUE]

(* A faulty variant: the cell melts before the attachment test. *)
stepTwo_MeltsFirst(C, c, P) ==
    LET C1 == [C EXCEPT ![c].diffusiveMass = C[c].next_dm]
        C2 == [C1 EXCEPT ![c].attachmentFlag = C1[c].attached]
        C3 == freezingStep(C2, c, P)
        C4 == meltingStep(C3, c, P)
    IN  [C4 EXCEPT ![c].attachmentFlag = attachmentStep(C4, c, P)]

stepTwo(C, c, P) ==
    LET C1 == [C EXCEPT ![c].diffusiveMass = C[c].next_dm]
        C2 == [C1 EXCEPT ![c].attachmentFlag = C1[c].attached]
        C3 == freezingStep(C2, c, P)
        C4 == [C3 EXCEPT ![c].attachmentFlag = attachmentStep(C3, c, P)]
    IN  meltingStep(C4, c, P)

(* A faulty variant: attached is assigned the decision instead of only being set. *)
stepThree_AssignsAttached(C, c, P, r) ==
    LET C1 == IF C[c].boundary /\ C[c].attachmentFlag THEN attach(C, c)
              ELSE [C EXCEPT ![c].attached = FALSE]
    IN  noiseStep(C1, c, P, r)

stepThree(C, c, P, r) ==
    LET C1 == IF C[c].boundary /\ C[c].attachmentFlag THEN attach(C, c) ELSE C
    IN  noiseStep(C1, c, P, r)

\* ====== CRYSTAL LATTICE CLASS ======
(* One loop of step() for each pass: the cells visited one after the other *)
(* in the order ord, each call working on the cells as the calls before it *)
(* left them.  (A call changes no key of the map; testing that makes TLC   *)
(* finish one call before it starts the next.)                             *)
RECURSIVE passOne(_, _, _)
passOne(C, ord, k) ==
    IF k > Len(ord) THEN C
    ELSE LET D == stepOne(C, ord[k])
         IN  IF DOMAIN D = DOMAIN C THEN passOne(D, ord, k + 1) ELSE D

RECURSIVE passTwo(_, _, _, _)
passTwo(C, P, ord, k) ==
    IF k > Len(ord) THEN C
    ELSE LET D == stepTwo(C, ord[k], P)
         IN  IF DOMAIN D = DOMAIN C THEN passTwo(D, P, ord, k + 1) ELSE D

RECURSIVE passThree(_, _, _, _, _)
passThree(C, P, rnd, ord, k) ==
    IF k > Len(ord) THEN C
    ELSE LET D == stepThree(C, ord[k], P, rnd[ord[k]])
         IN  IF DOMAIN D = DOMAIN C THEN passThree(D, P, rnd, ord, k + 1) ELSE D

(* step() with the order of each loop as a parameter; rnd[c] is the value *)
(* Math.random() returns in c's noiseStep.                                 *)
stepIn(C, P, rnd, o1, o2, o3) ==
    LET C1 == passOne(C, o1, 1)
        C2 == IF DOMAIN C1 = DOMAIN C THEN passTwo(C1, P, o2, 1) ELSE C1
    IN  IF DOMAIN C2 = DOMAIN C THEN passThree(C2, P, rnd, o3, 1) ELSE C2

(* CrystalLattice.step(): each loop runs over cells.values(), the order in *)
(* which the constructor inserted the cells.                               *)
step(L, P, rnd) ==
    [L EXCEPT !.cells = stepIn(L.cells, P, rnd, L.order, L.order, L.order)]

(* new CrystalLattice(size), for size >= 0. *)
CrystalLattice(size, P) ==
    [size |-> size,
     order |-> CellOrder(size),
     cells |-> [c \in Coords(size) |->
                  IF c = <<0, 0>> THEN [SnowflakeCell(P) EXCEPT !.attached = TRUE]
                  ELSE SnowflakeCell(P)]]

attachedCells(L) == {c \in DOMAIN L.cells : L.cells[c].attached}

(* A faulty variant: the attached cells are not filtered out. *)
boundaryCells_IncludesAttached(L) ==
    {c \in DOMAIN L.cells : L.cells[c].boundary}

boundaryCells(L) ==
    {c \in DOMAIN L.cells : L.cells[c].boundary /\ ~L.cells[c].attached}

\* ====== PROGRAM STATE ======
(* params       the global parameter object (the fields the simulation     *)
(*              reads; canvasScale only scales the drawing)                *)
(* lattice      the global lattice                                         *)
(* currentStep  the global step count                                      *)
(* stepCounter  the number shown by the stepCounter element                *)
(* group        what drawLattice last put in the scene: the coordinates of *)
(*              the attached-cell meshes and of the boundary-cell meshes   *)
(* pc, i        where the program is: "idle" between events, or in the     *)
(*              loop of stepLattice with loop variable i                   *)
(* editing      the GUI controller whose value the user is changing (the   *)
(*              slider is held, or the number field has the focus) and     *)
(*              whose onFinishChange is still to come; "none" otherwise    *)
(* builtWith    a history variable, no variable of the program: the values *)
(*              the simulation parameters had when the lattice was built   *)
VARIABLES params, lattice, currentStep, stepCounter, group, pc, i,
          editing, builtWith

vars == <<params, lattice, currentStep, stepCounter, group, pc, i,
          editing, builtWith>>

(* The parameters the cells' step methods read from params. *)
SimParamNames == {"beta", "theta", "alpha", "kappa", "mu", "upsilon", "sigma"}
SimParams(P) == [n \in SimParamNames |-> P[n]]

(* The parameter values the model is run with.  gridSize is odd, as the    *)
(* GUI keeps it; the lattice radius is Math.floor(gridSize / 2).           *)
(* GrowthParams: every size, three thresholds beta (0, (1 - kappa) * gamma *)
(* and the default 1.3), with and without noise.  RateParams: the rates    *)
(* kappa, mu, upsilon at both ends of [0,1] and gamma at 0 and 1, with     *)
(* noise, on the lattice of size 1.                                        *)
GridSizes == {2 * n + 1 : n \in 0 .. MaxSize}
Betas == {0, (9 * Unit) \div 20, (13 * Unit) \div 10}
Sigmas == {0, (3 * Unit) \div 10}

GrowthParams ==
    [gridSize : GridSizes, beta : Betas, theta : {(3 * Unit) \div 2},
     alpha : {(2 * Unit) \div 25}, kappa : {Unit \div 10}, mu : {Unit \div 2},
     upsilon : {Unit \div 1000}, sigma : Sigmas, gamma : {Unit \div 2},
     autoGrow : {FALSE}, stepsPerFrame : {5}]

RateParams ==
    [gridSize : {3}, beta : {0}, theta : {(3 * Unit) \div 2},
     alpha : {(2 * Unit) \div 25}, kappa : {0, Unit}, mu : {0, Unit},
     upsilon : {0, Unit}, sigma : {(3 * Unit) \div 10}, gamma : {0, Unit},
     autoGrow : {FALSE}, stepsPerFrame : {5}]

ParamChoices == GrowthParams \cup RateParams

(* The Math.random() values of one pass of noiseStep calls, one per cell:  *)
(* 0, one half and the largest value below 1, dealt out along the cell     *)
(* order starting at offset s.                                             *)
RandomSeq == <<0, Unit \div 2, Unit - 1>>
RandomField(L, s) ==
    [c \in DOMAIN L.cells |-> RandomSeq[((Rank(L.size, c) + s) % 3) + 1]]
RandomFields(L) == {RandomField(L, s) : s \in {0, 2}}

drawLattice(L) == [attached |-> attachedCells(L), boundary |-> boundaryCells(L)]

(* The module's top-level code: resetLattice() builds the first lattice. *)
Init ==
    /\ params \in ParamChoices
    /\ lattice = CrystalLattice(params.gridSize \div 2, params)
    /\ currentStep = 0
    /\ stepCounter = 0
    /\ group = drawLattice(lattice)
    /\ pc = "idle"
    /\ i = 0
    /\ editing = "none"
    /\ builtWith = SimParams(params)

(* resetLattice(), from the Reset button. *)
resetLattice ==
    /\ pc = "idle"
    /\ editing = "none"
    /\ currentStep' = 0
    /\ stepCounter' = 0
    /\ lattice' = CrystalLattice(params.gridSize \div 2, params)
    /\ group' = drawLattice(lattice')
    /\ builtWith' = SimParams(params)
    /\ UNCHANGED <<params, pc, i, editing>>

(* params.step(), from the Step Once button: stepLattice() starts. *)
StepOnce ==
    /\ pc = "idle"
    /\ editing = "none"
    /\ pc' = "stepLattice"
    /\ i' = 0
    /\ UNCHANGED <<params, lattice, currentStep, stepCounter, group,
                   editing, builtWith>>

(* One turn of stepLattice's loop: lattice.step(); currentStep++. *)
LatticeStep ==
    /\ pc = "stepLattice"
    /\ i < params.stepsPerFrame
    /\ currentStep < MaxSteps
    /\ \E rnd \in RandomFields(lattice) : lattice' = step(lattice, params, rnd)
    /\ currentStep' = currentStep + 1
    /\ i' = i + 1
    /\ UNCHANGED <<params, stepCounter, group, pc, editing, builtWith>>

(* The end of stepLattice: the counter is shown and the lattice drawn. *)
StepLatticeEnd ==
    /\ pc = "stepLattice"
    /\ i >= params.stepsPerFrame
    /\ stepCounter' = currentStep
    /\ group' = drawLattice(lattice)
    /\ pc' = "idle"
    /\ UNCHANGED <<params, lattice, currentStep, i, editing, builtWith>>

(* The canvasScale controller's onChange: drawLattice(params.canvasScale). *)
CanvasScaleChange ==
    /\ pc = "idle"
    /\ editing = "none"
    /\ group' = drawLattice(lattice)
    /\ UNCHANGED <<params, lattice, currentStep, stepCounter, pc, i,
                   editing, builtWith>>

Next ==
    \/ resetLattice
    \/ StepOnce
    \/ LatticeStep
    \/ StepLatticeEnd
    \/ CanvasScaleChange

Spec == Init /\ [][Next]_vars

\* ====== GUI AND MAIN LOOP ======
(* The program with every controller of the GUI and the animation loop, on *)
(* the lattices of size 1 and 2 without noise.  An event handler runs to   *)
(* its end before the next event is handled (pc = "idle" in between).      *)
(* While the user changes a value, the controller writes each new value    *)
(* into params and calls onChange; onFinishChange is called when the       *)
(* slider is released or the field loses the focus, which happens before   *)
(* any other controller or button gets an event.  Animation frames are     *)
(* handled in between.                                                     *)
GuiGridSizes == {3, 5}
GuiStepsPerFrame == {5, 6}
GuiValues ==
    [beta |-> {0, (9 * Unit) \div 20}, theta |-> {(3 * Unit) \div 2},
     alpha |-> {(2 * Unit) \div 25}, kappa |-> {Unit \div 10, Unit \div 5},
     mu |-> {Unit \div 2}, upsilon |-> {Unit \div 1000}, sigma |-> {0}]

GuiParams ==
    [gridSize : GuiGridSizes, beta : {(9 * Unit) \div 20},
     theta : {(3 * Unit) \div 2}, alpha : {(2 * Unit) \div 25},
     kappa : {Unit \div 10}, mu : {Unit \div 2}, upsilon : {Unit \div 1000},
     sigma : {0}, gamma : {Unit \div 2}, autoGrow : {FALSE},
     stepsPerFrame : {5}]

InitGui ==
    /\ params \in GuiParams
    /\ lattice = CrystalLattice(params.gridSize \div 2, params)
    /\ currentStep = 0
    /\ stepCounter = 0
    /\ group = drawLattice(lattice)
    /\ pc = "idle"
    /\ i = 0
    /\ editing = "none"
    /\ builtWith = SimParams(params)

(* The gridSize controller: the value is written and onChange calls *)
(* resetLattice() at once.                                          *)
GridSizeChange(g) ==
    /\ pc = "idle"
    /\ editing = "none"
    /\ g # params.gridSize
    /\ params' = [params EXCEPT !.gridSize = g]
    /\ currentStep' = 0
    /\ stepCounter' = 0
    /\ lattice' = CrystalLattice(g \div 2, params')
    /\ group' = drawLattice(lattice')
    /\ builtWith' = SimParams(params')
    /\ UNCHANGED <<pc, i, editing>>

(* A controller with onFinishChange(resetLattice) writes a new value into *)
(* params while the user is changing it; nothing is called.               *)
ParamChange(n, v) ==
    /\ pc = "idle"
    /\ editing \in {"none", n}
    /\ v # params[n]
    /\ params' = [params EXCEPT ![n] = v]
    /\ editing' = n
    /\ UNCHANGED <<lattice, currentStep, stepCounter, group, pc, i, builtWith>>

(* The user ends the change: onFinishChange calls resetLattice(). *)
ParamFinishChange ==
    /\ pc = "idle"
    /\ editing # "none"
    /\ editing' = "none"
    /\ currentStep' = 0
    /\ stepCounter' = 0
    /\ lattice' = CrystalLattice(params.gridSize \div 2, params)
    /\ group' = drawLattice(lattice')
    /\ builtWith' = SimParams(params)
    /\ UNCHANGED <<params, pc, i>>

(* The stepsPerFrame controller: the value is written, nothing is called. *)
StepsPerFrameChange(n) ==
    /\ pc = "idle"
    /\ editing = "none"
    /\ n # params.stepsPerFrame
    /\ params' = [params EXCEPT !.stepsPerFrame = n]
    /\ UNCHANGED <<lattice, currentStep, stepCounter, group, pc, i,
                   editing, builtWith>>

(* The autoGrow checkbox. *)
AutoGrowToggle ==
    /\ pc = "idle"
    /\ editing = "none"
    /\ params' = [params EXCEPT !.autoGrow = ~params.autoGrow]
    /\ UNCHANGED <<lattice, currentStep, stepCounter, group, pc, i,
                   editing, builtWith>>

(* animate(), once per animation frame: stepLattice() starts if autoGrow *)
(* is set; otherwise the scene is only rendered.                         *)
AnimationFrame ==
    /\ pc = "idle"
    /\ IF params.autoGrow
       THEN /\ pc' = "stepLattice"
            /\ i' = 0
            /\ UNCHANGED <<params, lattice, currentStep, stepCounter, group,
                           editing, builtWith>>
       ELSE UNCHANGED vars

NextGui ==
    \/ resetLattice
    \/ StepOnce
    \/ LatticeStep
    \/ StepLatticeEnd
    \/ CanvasScaleChange
    \/ \E g \in GuiGridSizes : GridSizeChange(g)
    \/ \E n \in SimParamNames : \E v \in GuiValues[n] : ParamChange(n, v)
    \/ ParamFinishChange
    \/ \E n \in GuiStepsPerFrame : StepsPerFrameChange(n)
    \/ AutoGrowToggle
    \/ AnimationFrame

SpecGui == InitGui /\ [][NextGui]_vars

\* ====== PROPERTIES ======
Origin == <<0, 0>>

(* c has a neighbor that is attached, in the cells map C. *)
HasAttachedNeighbor(C, c) ==
    \E k \in 1 .. Len(neighbors(C, c)) : C[neighbors(C, c)[k]].attached

(* The transition is a call of lattice.step() on the same lattice. *)
IsStep == currentStep' = currentStep + 1

(* C1, as claimed: after a completed step() a cell's boundary flag is true *)
(* exactly if the cell is unattached and has an attached neighbor, on the  *)
(* attached flags as they stand after the step.                            *)
C1_BoundaryMatchesAttachedAfterStep ==
    currentStep >= 1 =>
        \A c \in DOMAIN lattice.cells :
            lattice.cells[c].boundary <=>
                (~lattice.cells[c].attached /\ HasAttachedNeighbor(lattice.cells, c))

(* C1, amended: after a step() a cell's boundary flag is true exactly if   *)
(* the cell was unattached and had an attached neighbor on the attached    *)
(* flags as they stood before that step; the cells the step attaches keep  *)
(* their flag and do not yet make their neighbors boundary cells.          *)
C1_BoundaryMatchesAttachedBeforeStep ==
    [][IsStep =>
        \A c \in DOMAIN lattice.cells :
            lattice'.cells[c].boundary <=>
                (~lattice.cells[c].attached /\ HasAttachedNeighbor(lattice.cells, c))]_vars

(* A step has just attached a cell: it is attached and still flagged. *)
C1_Witness ==
    /\ currentStep >= 1
    /\ \E c \in DOMAIN lattice.cells :
          lattice.cells[c].attached /\ lattice.cells[c].boundary

(* Orders in which a pass may visit the cells: the insertion order and its *)
(* reverse.                                                                *)
VisitOrders(L) == {L.order, Reverse(L.order)}

(* C2, as claimed: with sigma = 0 the cells after step() are the same for  *)
(* every order in which each of the three passes visits the cells.         *)
C2_OrderIndependent ==
    params.sigma = 0 =>
        \A o1 \in VisitOrders(lattice), o2 \in VisitOrders(lattice),
           o3 \in VisitOrders(lattice), rnd \in RandomFields(lattice) :
            stepIn(lattice.cells, params, rnd, o1, o2, o3)
                = step(lattice, params, rnd).cells

(* C3: between two states of the same lattice no attached cell becomes     *)
(* unattached; only resetLattice, which builds a new lattice, drops cells. *)
C3_AttachedStaysAttached ==
    [][(~resetLattice) =>
        \A c \in DOMAIN lattice.cells :
            lattice.cells[c].attached =>
                c \in DOMAIN lattice'.cells /\ lattice'.cells[c].attached]_vars

(* A cell other than the seed is attached and has been through at least    *)
(* one later step (its age is the number of the step that attached it).    *)
C3_Witness ==
    \E c \in DOMAIN lattice.cells \ {Origin} :
        lattice.cells[c].attached /\ lattice.cells[c].age < currentStep

(* C4, as claimed: no lattice of a size below 1 is ever constructed. *)
C4_NoLatticeBelowSizeOne == lattice.size >= 1

(* C5: right after construction with a size >= 1 the seed at (0,0) is the  *)
(* only attached cell, no cell is a boundary cell, and the cells are those *)
(* at the coordinates with |q| <= size, |r| <= size, |q + r| <= size.      *)
C5_SeedInvariant ==
    (currentStep = 0 /\ lattice.size >= 1) =>
        LET n == lattice.size
            C == lattice.cells
        IN  /\ DOMAIN C = {c \in (0 - n - 1 .. n + 1) \X (0 - n - 1 .. n + 1) :
                              Abs(c[1]) <= n /\ Abs(c[2]) <= n /\ Abs(c[1] + c[2]) <= n}
            /\ Cardinality(DOMAIN C) = 3 * n * (n + 1) + 1
            /\ {c \in DOMAIN C : C[c].attached} = {Origin}
            /\ \A c \in DOMAIN C : ~C[c].boundary

C5_Witness == currentStep = 0 /\ lattice.size >= 2 /\ pc = "idle"

(* C6: a step() attaches a cell only if the cell was unattached with an    *)
(* attached neighbor when the step began (what Pass 1 evaluates), and its  *)
(* boundary flag, set by Pass 1 of that step, is true.                     *)
C6_AttachOnlyBoundary ==
    [][IsStep =>
        \A c \in DOMAIN lattice.cells :
            (~lattice.cells[c].attached /\ lattice'.cells[c].attached) =>
                /\ lattice'.cells[c].boundary
                /\ HasAttachedNeighbor(lattice.cells, c)]_vars

(* The last step attached a cell. *)
C6_Witness ==
    /\ currentStep >= 1
    /\ \E c \in DOMAIN lattice.cells \ {Origin} :
          lattice.cells[c].attached /\ lattice.cells[c].age = currentStep

(* The parameters are in the ranges C7 names. *)
ParamsInRange ==
    /\ params.gamma >= 0 /\ params.sigma >= 0
    /\ params.kappa \in 0 .. Unit /\ params.mu \in 0 .. Unit
    /\ params.upsilon \in 0 .. Unit

(* C7: after construction and after every step() no mass of any cell is    *)
(* negative.                                                               *)
C7_MassBounds ==
    ParamsInRange =>
        \A c \in DOMAIN lattice.cells :
            /\ lattice.cells[c].diffusiveMass >= 0
            /\ lattice.cells[c].boundaryMass >= 0
            /\ lattice.cells[c].crystalMass >= 0

(* Noise is on and a step left an unattached cell with no diffusive mass:  *)
(* the noise took all of it.                                               *)
C7_Witness ==
    /\ ParamsInRange /\ params.sigma > 0 /\ currentStep >= 1
    /\ \E c \in DOMAIN lattice.cells :
          ~lattice.cells[c].attached /\ lattice.cells[c].diffusiveMass = 0

(* Over the cells of L that are not attached: the number of cells, the sum *)
(* of diffusiveMass, and the sum of the values Pass 1 computes for Pass 2  *)
(* to commit; then the same two sums with each cell's mass counted once    *)
(* for the cell and once for each of its neighbors.                        *)
Unattached(L) == {c \in DOMAIN L.cells : ~L.cells[c].attached}

DiffusiveSum(L) ==
    SumSeq([c \in DOMAIN L.cells |->
              IF L.cells[c].attached THEN 0 ELSE L.cells[c].diffusiveMass], L.order)

AveragedSum(L) ==
    LET C1 == passOne(L.cells, L.order, 1)
    IN  SumSeq([c \in DOMAIN L.cells |->
                  IF L.cells[c].attached THEN 0 ELSE C1[c].next_dm], L.order)

Degree(L, c) == Len(neighbors(L.cells, c))

WeightedDiffusiveSum(L) ==
    SumSeq([c \in DOMAIN L.cells |->
              IF L.cells[c].attached THEN 0
              ELSE (Degree(L, c) + 1) * L.cells[c].diffusiveMass], L.order)

WeightedAveragedSum(L) ==
    LET C1 == passOne(L.cells, L.order, 1)
    IN  SumSeq([c \in DOMAIN L.cells |->
                  IF L.cells[c].attached THEN 0
                  ELSE (Degree(L, c) + 1) * C1[c].next_dm], L.order)

DegreeSum(L) ==
    SumSeq([c \in DOMAIN L.cells |->
              IF L.cells[c].attached THEN 0 ELSE Degree(L, c)], L.order)

(* C8, as claimed: with sigma = 0 the values Pass 1 computes have the same *)
(* sum over the unattached cells as the diffusive masses they replace, up  *)
(* to the rounding of one quotient per cell.                               *)
C8_AveragingKeepsSum ==
    params.sigma = 0 =>
        Abs(AveragedSum(lattice) - DiffusiveSum(lattice))
            <= Cardinality(Unattached(lattice))

(* C8, amended: with sigma = 0 Pass 1's averaging keeps the sum over the   *)
(* unattached cells of (number of neighbors + 1) * diffusiveMass, up to    *)
(* the rounding of the quotients; the plain sum it keeps only where the    *)
(* cells involved have equally many neighbors, not at the edge cells.      *)
C8_AveragingKeepsWeightedSum ==
    params.sigma = 0 =>
        /\ WeightedAveragedSum(lattice) <= WeightedDiffusiveSum(lattice)
        /\ WeightedAveragedSum(lattice)
              >= WeightedDiffusiveSum(lattice) - DegreeSum(lattice)

(* Without noise, the averaging is about to change the plain sum by more   *)
(* than rounding can.                                                      *)
C8_Witness ==
    /\ params.sigma = 0
    /\ Abs(AveragedSum(lattice) - DiffusiveSum(lattice))
          > Cardinality(Unattached(lattice))

(* A second lattice: constructed with the parameters P and advanced by n   *)
(* calls of step(), Math.random() returning r in every noiseStep.          *)
RECURSIVE Stepped(_, _, _)
Stepped(P, n, r) ==
    IF n = 0 THEN CrystalLattice(P.gridSize \div 2, P)
    ELSE LET L == Stepped(P, n - 1, r)
         IN  step(L, P, [c \in DOMAIN L.cells |-> r])

(* C9: with sigma = 0 the lattice equals, in every field of every cell, a  *)
(* second lattice constructed with the same parameters and stepped as many *)
(* times, whatever Math.random() returned in either.                       *)
C9_Deterministic ==
    params.sigma = 0 =>
        \A r \in {0, Unit - 1} : lattice = Stepped(params, currentStep, r)

(* Without noise the lattice has grown over several steps. *)
C9_Witness ==
    /\ params.sigma = 0 /\ currentStep >= 3
    /\ Cardinality(attachedCells(lattice)) > 1
    /\ Unattached(lattice) # {}

(* The six neighbors of the origin. *)
RingOne == {<<1, 0>>, <<0, 1>>, <<-1, 1>>, <<-1, 0>>, <<0, -1>>, <<1, -1>>}

(* C10: after the first step() on a new lattice of size >= 1, with         *)
(* beta >= (1 - kappa) * gamma, the cells with boundary == true are the    *)
(* six neighbors of the origin and the origin is the only attached cell.   *)
C10_FirstStepRing ==
    (/\ currentStep = 1 /\ lattice.size >= 1
     /\ params.beta >= Mul(Unit - params.kappa, params.gamma)) =>
        /\ {c \in DOMAIN lattice.cells : lattice.cells[c].boundary} = RingOne
        /\ attachedCells(lattice) = {Origin}

(* The scenario: size 2, gamma 0.5, beta 1.3, one step taken. *)
C10_Witness ==
    /\ currentStep = 1 /\ lattice.size = 2
    /\ params.gamma = Unit \div 2 /\ params.beta = (13 * Unit) \div 10
    /\ \A c \in RingOne : lattice.cells[c].boundary

(* The boundary mass of cell c after the freezing of the step being taken, *)
(* before its melting: what the cell held before the step plus the share   *)
(* 1 - kappa of the diffusive mass the step commits to it.                 *)
FrozenMass(c) ==
    lattice.cells[c].boundaryMass
        + Mul(Unit - params.kappa, lattice'.cells[c].next_dm)

(* C11: with beta = 0, 0 < kappa < 1 and gamma > 0, a step() (the first on *)
(* a fresh lattice in particular) attaches every cell that was a boundary  *)
(* cell in that step with one or two attached neighbors and a positive     *)
(* boundary mass after freezing.                                           *)
C11_ZeroThresholdAttaches ==
    [][(/\ IsStep
        /\ params.beta = 0 /\ params.kappa > 0 /\ params.kappa < Unit
        /\ params.gamma > 0)
       => \A c \in DOMAIN lattice.cells :
            (/\ lattice'.cells[c].boundary
             /\ Len(lattice'.cells[c].attachedNeighbors) \in {1, 2}
             /\ FrozenMass(c) > 0)
            => lattice'.cells[c].attached]_vars

(* The first step with beta = 0 has attached the six cells around the seed, *)
(* each with one attached neighbor.                                         *)
C11_Witness ==
    /\ currentStep = 1 /\ params.beta = 0 /\ lattice.size >= 1
    /\ params.kappa > 0 /\ params.kappa < Unit /\ params.gamma > 0
    /\ \A c \in RingOne :
         /\ lattice.cells[c].attached
         /\ Len(lattice.cells[c].attachedNeighbors) = 1
         /\ lattice.cells[c].crystalMass > 0

(* C12: a call of drawLattice, and so of attachedCells() and               *)
(* boundaryCells(), leaves the lattice (every field of every cell and the  *)
(* set of cells) as it was, however often it is called; it draws exactly   *)
(* the cells with attached true and exactly the cells with boundary true   *)
(* and attached false.                                                     *)
C12_QueriesReadOnly ==
    [][(CanvasScaleChange \/ StepLatticeEnd)
       => /\ lattice' = lattice
          /\ group'.attached =
                {c \in DOMAIN lattice.cells : lattice.cells[c].attached}
          /\ group'.boundary =
                {c \in DOMAIN lattice.cells :
                    lattice.cells[c].boundary /\ ~lattice.cells[c].attached}]_vars

(* A drawn lattice in which a cell attached in the last step still has its *)
(* boundary flag set, next to boundary cells that are not attached.        *)
C12_Witness ==
    /\ pc = "idle" /\ currentStep > 0 /\ stepCounter = currentStep
    /\ group.boundary # {}
    /\ \E c \in group.attached :
         lattice.cells[c].boundary /\ c \notin group.boundary

(* C13: every step() of a lattice reads the values of beta, theta, alpha,  *)
(* kappa, mu, upsilon and sigma that were in effect when that lattice was  *)
(* built, whatever the order of parameter changes, resets and animation    *)
(* frames.                                                                 *)
C13_StepUsesConstructionParams ==
    [][IsStep => SimParams(params) = builtWith]_vars

(* The cells as Pass 2 of the step being taken leaves them. *)
AfterPassTwo ==
    passTwo(passOne(lattice.cells, lattice.order, 1), params, lattice.order, 1)

(* The sum of diffusive mass over c and its neighbors that c's attachment  *)
(* test of the step being taken finds: c itself is frozen (a boundary cell *)
(* holds no diffusive mass after freezing); a neighbor visited before c    *)
(* holds what its own Pass 2 left, a neighbor visited after c what it held *)
(* before the step.                                                        *)
SummedDiff(c) ==
    LET found == [n \in DOMAIN lattice.cells |->
                    IF Rank(lattice.size, n) < Rank(lattice.size, c)
                    THEN AfterPassTwo[n].diffusiveMass
                    ELSE lattice.cells[n].diffusiveMass]
    IN  SumSeq(found, neighbors(lattice.cells, c))

(* C14: the decision a step stores for a cell is true exactly if the cell  *)
(* is a boundary cell with k attached neighbors and boundary mass bm (after *)
(* freezing) such that k is 1 or 2 and bm > beta, or k is 3 and bm >= 1 or  *)
(* (bm >= alpha and the sum of diffusive mass over the cell and all its     *)
(* neighbors is below theta); it is false for k = 0, for k >= 4 and for a   *)
(* cell that is no boundary cell.                                           *)
C14_AttachmentDecision ==
    [][IsStep
       => \A c \in DOMAIN lattice.cells :
            LET cell == lattice'.cells[c]
                k == Len(cell.attachedNeighbors)
                bm == FrozenMass(c)
            IN  cell.attachmentFlag
                  <=> /\ cell.boundary
                      /\ \/ k \in {1, 2} /\ bm > params.beta
                         \/ /\ k = 3
                            /\ \/ bm >= Unit
                               \/ bm >= params.alpha /\ SummedDiff(c) < params.theta]_vars

(* A step in which a cell with three attached neighbors attached on less  *)
(* boundary mass than 1, while a boundary cell with four or more attached *)
(* neighbors did not attach.                                              *)
C14_Witness ==
    /\ currentStep > 0
    /\ \E c \in DOMAIN lattice.cells :
         /\ lattice.cells[c].boundary /\ lattice.cells[c].attached
         /\ lattice.cells[c].attachmentFlag
         /\ Len(lattice.cells[c].attachedNeighbors) = 3
         /\ lattice.cells[c].crystalMass < Unit
    /\ \E c \in DOMAIN lattice.cells :
         /\ lattice.cells[c].boundary /\ ~lattice.cells[c].attached
         /\ Len(lattice.cells[c].attachedNeighbors) >= 4
         /\ lattice.cells[c].boundaryMass > params.beta

(* C15: in Pass 2 a boundary cell commits its diffusive mass, freezes,   *)
(* takes the attachment test and melts, in that order.  The boundary mass *)
(* the test compares is the mass after freezing and before melting (the   *)
(* mass before the step plus (1 - kappa) times the committed diffusive    *)
(* mass); the boundary mass left, and folded into the crystal mass if the *)
(* cell attaches in Pass 3, is the mass after melting.                    *)
C15_FreezeTestMelt ==
    [][IsStep
       => \A c \in DOMAIN lattice.cells :
            LET cell == lattice'.cells[c]
                frozen == FrozenMass(c)
                melted == Mul(frozen, Unit - params.mu)
                crystal == lattice.cells[c].crystalMass
                              + Mul(params.kappa, cell.next_dm)
            IN  cell.boundary
                => /\ Len(cell.attachedNeighbors) <= 2
                        => (cell.attachmentFlag <=> frozen > params.beta)
                   /\ IF cell.attached
                      THEN /\ cell.boundaryMass = 0
                           /\ cell.crystalMass =
                                 Mul(crystal, Unit - params.upsilon) + melted
                      ELSE /\ cell.boundaryMass = melted
                           /\ cell.crystalMass = Mul(crystal, Unit - params.upsilon)
                   /\ params.sigma = 0
                        => cell.diffusiveMass =
                             Mul(params.mu, frozen) + Mul(params.upsilon, crystal)]_vars

(* A cell with one or two attached neighbors has attached although the   *)
(* mass it kept after melting is not above beta: the test saw the mass   *)
(* before melting.                                                       *)
C15_Witness ==
    /\ params.beta > 0 /\ params.mu > 0
    /\ \E c \in DOMAIN lattice.cells :
         /\ lattice.cells[c].boundary /\ lattice.cells[c].attached
         /\ Len(lattice.cells[c].attachedNeighbors) <= 2
         /\ lattice.cells[c].crystalMass > 0
         /\ lattice.cells[c].crystalMass <= params.beta

(* The cells next to c that exist in the lattice. *)
NeighborSet(c) ==
    {<<c[1] + HEX_DX[d], c[2] + HEX_DY[d]>> : d \in 1 .. 6}
        \cap DOMAIN lattice.cells

RECURSIVE SumOver(_, _)
SumOver(f, S) ==
    IF S = {} THEN 0
    ELSE LET x == CHOOSE y \in S : TRUE IN f[x] + SumOver(f, S \ {x})

(* C16: the diffusive mass a step computes for an unattached cell in Pass 1 *)
(* is (own + the sum of the neighbors' contributions) / (number of existing *)
(* neighbors + 1), where an attached neighbor contributes the cell's own    *)
(* diffusive mass and an unattached one its diffusive mass, all as they     *)
(* were before the step; for an attached cell it is the cell's own          *)
(* diffusive mass.                                                          *)
C16_DiffusionRead ==
    [][IsStep
       => \A c \in DOMAIN lattice.cells :
            LET own == lattice.cells[c].diffusiveMass
                contribution == [n \in DOMAIN lattice.cells |->
                                   IF lattice.cells[n].attached THEN own
                                   ELSE lattice.cells[n].diffusiveMass]
            IN  lattice'.cells[c].next_dm =
                  IF lattice.cells[c].attached THEN own
                  ELSE (own + SumOver(contribution, NeighborSet(c)))
                          \div (Cardinality(NeighborSet(c)) + 1)]_vars

(* After a step: an unattached cell at the edge (fewer than six neighbors) *)
(* next to an attached cell, with an unattached neighbor of another mass.  *)
C16_Witness ==
    /\ currentStep > 1
    /\ \E c \in DOMAIN lattice.cells :
         /\ ~lattice.cells[c].attached
         /\ Len(neighbors(lattice.cells, c)) < 6
         /\ HasAttachedNeighbor(lattice.cells, c)
         /\ \E k \in 1 .. Len(neighbors(lattice.cells, c)) :
              LET n == neighbors(lattice.cells, c)[k]
              IN  /\ ~lattice.cells[n].attached
                  /\ lattice.cells[n].diffusiveMass # lattice.cells[c].diffusiveMass
         /\ lattice.cells[c].next_dm > 0

(* The mass a cell holds, in all three forms. *)
CellTotal(cell) == cell.diffusiveMass + cell.boundaryMass + cell.crystalMass

(* C17: in every step and for every cell, the freezing and melting of Pass *)
(* 2 leave the sum of diffusive, boundary and crystal mass equal to the    *)
(* committed diffusive mass plus the boundary and crystal mass before the  *)
(* step, and without noise (sigma = 0) Pass 3 changes no cell's sum.       *)
(* Each of the three products that split a mass rounds down, so the sum    *)
(* may fall short by up to three units of the last digit, never exceed.    *)
C17_PhaseChangesKeepMass ==
    [][IsStep
       => \A C2 \in {AfterPassTwo} : \A c \in DOMAIN lattice.cells :
            LET before == lattice'.cells[c].next_dm
                            + lattice.cells[c].boundaryMass
                            + lattice.cells[c].crystalMass
            IN  /\ CellTotal(C2[c]) \in (before - 3) .. before
                /\ params.sigma = 0
                     => CellTotal(lattice'.cells[c]) = CellTotal(C2[c])]_vars

(* Without noise: a boundary cell holding mass in all three forms, and a *)
(* cell that attached in the last step.                                  *)
C17_Witness ==
    /\ params.sigma = 0 /\ currentStep > 1
    /\ \E c \in DOMAIN lattice.cells :
         /\ lattice.cells[c].boundary /\ ~lattice.cells[c].attached
         /\ lattice.cells[c].diffusiveMass > 0
         /\ lattice.cells[c].boundaryMass > 0
         /\ lattice.cells[c].crystalMass > 0
    /\ \E c \in DOMAIN lattice.cells :
         /\ lattice.cells[c].boundary /\ lattice.cells[c].attached
         /\ lattice.cells[c].crystalMass > 0

(* C18: after construction and after every step, with gamma > 0, every *)
(* attached cell has the diffusive mass 0.                             *)
C18_AttachedHoldNoVapor ==
    params.gamma > 0
    => \A c \in DOMAIN lattice.cells :
         lattice.cells[c].attached => lattice.cells[c].diffusiveMass = 0

(* C19: each activation of the Step Once button calls lattice.step() once *)
(* and raises the displayed step counter by 1.  (In this specification    *)
(* stepLattice is entered from the button only.)                          *)
C19_StepOnceIsOneStep ==
    [][StepLatticeEnd => (i = 1 /\ stepCounter' = stepCounter + 1)]_vars

(* C20: a step leaves the diffusive, boundary and crystal mass and the   *)
(* age of every cell that was attached before it (the seed included)     *)
(* unchanged, with or without noise, and the boundary mass of such a     *)
(* cell is 0.                                                            *)
C20_AttachedCellsFrozen ==
    [][IsStep
       => \A c \in DOMAIN lattice.cells :
            lattice.cells[c].attached
            => /\ lattice'.cells[c].diffusiveMass = lattice.cells[c].diffusiveMass
               /\ lattice'.cells[c].boundaryMass = lattice.cells[c].boundaryMass
               /\ lattice'.cells[c].crystalMass = lattice.cells[c].crystalMass
               /\ lattice'.cells[c].age = lattice.cells[c].age
               /\ lattice'.cells[c].boundaryMass = 0]_vars

(* With noise: a cell other than the seed that attached in an earlier step *)
(* (a later step has cleared its boundary flag) and holds diffusive mass.  *)
C20_Witness ==
    /\ params.sigma > 0 /\ currentStep > 1
    /\ \E c \in DOMAIN lattice.cells \ {Origin} :
         /\ lattice.cells[c].attached /\ ~lattice.cells[c].boundary
         /\ lattice.cells[c].age < currentStep
         /\ lattice.cells[c].diffusiveMass > 0
         /\ lattice.cells[c].crystalMass > 0

=============================================================================
